---- MODULE Spec2Model ----
(***************************************************************************)
(* The WebSocket agent gateway of lettabot: AgentSessionManager            *)
(* (src/api/agent-session-manager.ts) driven by WsGateway                   *)
(* (src/api/ws-gateway.ts).                                                 *)
(*                                                                          *)
(* Every inbound frame starts its own asynchronous handler                  *)
(* (ws.on('message') calls onMessage without awaiting it), so handlers of   *)
(* one connection interleave at their await points.  A handler is modelled  *)
(* as a task whose pc names the await it is suspended at.  The SDK Session  *)
(* (initialize/send/stream/abort/close) is the environment: each pending    *)
(* call may resolve, reject or stay pending.                                *)
(***************************************************************************)
EXTENDS Integers, Sequences, FiniteSets, TLC

\* ---------------------------------------------------------------- bounds
\* connection ids ever assigned (crypto.randomUUID, never reused)
MaxConn == 2
\* inbound frames handled in one run; a frame's number is its request_id
MaxFrames == 4
\* SDK sessions ever created
MaxRec == 2
\* events one SDK session's stream produces
MaxEvents == 2

\* ---------------------------------------------------------- configuration
\* options.idleTimeoutMs, in clock ticks
idleTimeoutMs == 0
\* idleFor stops counting once it is past the timeout
MaxIdle == idleTimeoutMs + 1

None == 0
Conns == 1..MaxConn
Recs == 1..MaxRec
Frames == 1..MaxFrames

SessionState == {"initializing", "ready", "busy", "error", "closed"}
\* SDKMessage types the stream yields; "init" stands for the types
\* forwardStreamEvent has no case for
SDKMessageType == {"assistant", "init", "result"}

VARIABLES
    wsState,     \* per connection id: "none" | "open" | "closed" (ws.readyState)
    nConn,       \* connection ids assigned so far
    sessions,    \* AgentSessionManager.sessions: connection id -> record or None
    managed,     \* the ManagedSession objects, by record number; idleFor is
                 \* Date.now() - lastActivity, kept in place of the two times
    nRec,        \* ManagedSession objects created so far
    sdk,         \* per SDK Session: calls made on it and events it has produced
    sweepTimer,  \* AgentSessionManager.sweepTimer is set
    pingTimer,   \* WsGateway.pingTimer is set: the gateway has not shut down
    maxConnections, \* WsGateway.maxConnections, fixed by the constructor
    wssRunning,  \* WsGateway.wss accepts handshakes: wss.close() was not called
    task,        \* per frame: the suspended handler it started
    nFrames,     \* frames received so far
    sent         \* the frames the latest step wrote to a socket, in order

vars == <<wsState, nConn, sessions, managed, nRec, sdk,
          sweepTimer, pingTimer, maxConnections, wssRunning, task, nFrames, sent>>

NoManaged == [conn |-> None, state |-> "none", idleFor |-> 0, conversationId |-> "null"]
NoSdk == [closeCalls |-> 0, sendCalls |-> 0, abortCalls |-> 0, produced |-> 0]
Idle == [pc |-> "idle", conn |-> None, rec |-> None]

\* the gateway and its session manager after construction with
\* options.maxConnections = cap
Constructed(cap) ==
    /\ wsState = [c \in Conns |-> "none"]
    /\ nConn = 0
    /\ sessions = [c \in Conns |-> None]
    /\ managed = [r \in Recs |-> NoManaged]
    /\ nRec = 0
    /\ sdk = [r \in Recs |-> NoSdk]
    /\ sweepTimer = TRUE
    /\ pingTimer = TRUE
    /\ maxConnections = cap
    /\ wssRunning = TRUE
    /\ task = [f \in Frames |-> Idle]
    /\ nFrames = 0
    /\ sent = <<>>

\* a gateway whose cap admits every client of the run
Init == Constructed(MaxConn)

\* a gateway whose cap is below the number of clients that try to connect
InitCapped == \E cap \in 1..(MaxConn - 1) : Constructed(cap)

\* --------------------------------------------------------------- helpers

\* a frame on the wire of connection c; rid is the request_id (0: none),
\* seq the number of the SDK event or record it carries
Frame(c, type, code, rid, seq) ==
    [conn |-> c, type |-> type, code |-> code, rid |-> rid, seq |-> seq]

\* WsGateway.send: written only while the socket is OPEN
send(c, type, code, rid, seq) ==
    IF wsState[c] = "open" THEN <<Frame(c, type, code, rid, seq)>> ELSE <<>>

\* sendError that leaves the request_id out
sendErrorNoRequestId(c, code, rid) == send(c, "error", code, 0, 0)

\* sendError that leaves the code out
sendErrorUntyped(c, code, rid) == send(c, "error", "", rid, 0)

\* WsGateway.sendError
sendError(c, code, rid) == send(c, "error", code, rid, 0)

\* the response handleUpgrade writes to the raw socket of a refused upgrade
refuse(status) == <<Frame(None, "http", status, 0, 0)>>

\* handlers suspended right after `await this.close(connectionId)`: their
\* continuation is a queued microtask
MicrotaskPending == {f \in Frames : task[f].pc = "afterClose"}

\* WsGateway.shutdown is suspended at `await this.sessions.shutdown()`, line
\* 129: the timer is cleared and the server not closed yet.  The promise is
\* settled already, so the continuation is a queued microtask.
ShutdownPending == ~pingTimer /\ wssRunning

\* timers, socket events and SDK completions are macrotasks: they run only
\* when the microtask queue is empty
MacrotaskTurn == MicrotaskPending = {} /\ ~ShutdownPending

\* frames of one socket chunk are emitted back to back, before any microtask;
\* another connection's frames come with another socket event
FrameTurn(c) ==
    /\ wsState[c] = "open"
    /\ nFrames < MaxFrames
    /\ \A f \in MicrotaskPending : task[f].conn = c
    /\ ~ShutdownPending

\* AgentSessionManager.close, lines 146-150, as new values of the three
\* structures it touches
closeManaged(c) ==
    IF sessions[c] = None THEN managed
    ELSE [managed EXCEPT ![sessions[c]].state = "closed"]

\* close that drops the record without releasing its SDK session
closeSdkNoRelease(c) == sdk

closeSdk(c) ==
    IF sessions[c] = None THEN sdk
    ELSE [sdk EXCEPT ![sessions[c]].closeCalls = @ + 1]

\* close that leaves the record in the map
closeSessionsKept(c) == sessions

\* close that empties the whole map
closeSessionsAll(c) == [d \in Conns |-> None]

closeSessions(c) == [sessions EXCEPT ![c] = None]

close(c) ==
    /\ managed' = closeManaged(c)
    /\ sdk' = closeSdk(c)
    /\ sessions' = closeSessions(c)

\* ------------------------------------------------------- gateway: upgrade

\* a capacity test that lets one connection too many in
atCapacityOffByOne ==
    Cardinality({c \in Conns : wsState[c] = "open"}) > maxConnections

\* handleUpgrade, line 112: wss.clients.size >= maxConnections
atCapacity ==
    Cardinality({c \in Conns : wsState[c] = "open"}) >= maxConnections

\* an admission that tests the capacity before the API key
admissionCapacityFirst(authOk) ==
    IF atCapacity \/ ~wssRunning THEN "503"
    ELSE IF ~authOk THEN "401"
    ELSE "101"

\* handleUpgrade, lines 106-120: the status the request is answered with
admission(authOk) ==
    IF ~authOk THEN "401"
    ELSE IF atCapacity \/ ~wssRunning THEN "503"
    ELSE "101"

\* WsGateway.handleUpgrade on the gateway path.  Once shutdown has closed
\* the WebSocketServer (line 133) the server refuses every handshake.
Upgrade(authOk) ==
    /\ MacrotaskTurn
    /\ IF admission(authOk) # "101"
       THEN /\ sent' = refuse(admission(authOk))
            /\ UNCHANGED <<wsState, nConn>>
       ELSE /\ nConn < MaxConn
            /\ nConn' = nConn + 1
            /\ wsState' = [wsState EXCEPT ![nConn + 1] = "open"]
            /\ sent' = <<>>
    /\ UNCHANGED <<sessions, managed, nRec, sdk, sweepTimer, pingTimer, maxConnections, wssRunning, task, nFrames>>

\* a close handler that forgets the connection id and leaves the session
ConnDropSessionKept(c) ==
    /\ MacrotaskTurn
    /\ wsState[c] = "open"
    /\ wsState' = [wsState EXCEPT ![c] = "closed"]
    /\ sent' = <<>>
    /\ UNCHANGED <<sessions, managed, sdk, nConn, nRec, sweepTimer, pingTimer, maxConnections, wssRunning,
                   task, nFrames>>

\* ws.on('close'): the connection dropped
ConnDrop(c) ==
    /\ MacrotaskTurn
    /\ wsState[c] = "open"
    /\ wsState' = [wsState EXCEPT ![c] = "closed"]
    /\ close(c)
    /\ sent' = <<>>
    /\ UNCHANGED <<nConn, nRec, sweepTimer, pingTimer, maxConnections, wssRunning, task, nFrames>>

\* ------------------------------------------- session manager: open

\* WsGateway.onMessage, 'session_start' with agent_id: handleSessionStart ->
\* AgentSessionManager.open up to its first await (line 69)
SessionStart(c) ==
    /\ FrameTurn(c)
    /\ nRec + Cardinality(MicrotaskPending) < MaxRec
    /\ nFrames' = nFrames + 1
    /\ close(c)
    /\ task' = [task EXCEPT ![nFrames + 1] = [pc |-> "afterClose", conn |-> c, rec |-> None]]
    /\ sent' = <<>>
    /\ UNCHANGED <<wsState, nConn, nRec, sweepTimer, pingTimer, maxConnections, wssRunning>>

\* open, lines 71-89: create the SDK session, register the record, call
\* session.initialize()
OpenContinue(f) ==
    /\ task[f].pc = "afterClose"
    /\ nRec' = nRec + 1
    /\ managed' = [managed EXCEPT ![nRec + 1] =
                      [conn |-> task[f].conn, state |-> "initializing",
                       idleFor |-> 0, conversationId |-> "null"]]
    /\ sessions' = [sessions EXCEPT ![task[f].conn] = nRec + 1]
    /\ task' = [task EXCEPT ![f] = [@ EXCEPT !.pc = "awaitInit", !.rec = nRec + 1]]
    /\ sent' = <<>>
    /\ UNCHANGED <<wsState, nConn, sdk, sweepTimer, pingTimer, maxConnections, wssRunning, nFrames>>

\* open, lines 90-94, then handleSessionStart lines 213-218
InitOk(f) ==
    /\ MacrotaskTurn
    /\ task[f].pc = "awaitInit"
    /\ managed' = [managed EXCEPT ![task[f].rec] =
                      [@ EXCEPT !.state = "ready", !.conversationId = "confirmed",
                                !.idleFor = 0]]
    /\ sent' = send(task[f].conn, "session_init", "", 0, task[f].rec)
    /\ task' = [task EXCEPT ![f] = Idle]
    /\ UNCHANGED <<wsState, nConn, sessions, nRec, sdk, sweepTimer, pingTimer, maxConnections, wssRunning, nFrames>>

\* a catch block that leaves the record's state as it was
openFailedStateKept(m) == m

\* open, line 96: the record after initialize failed
openFailed(m) == [m EXCEPT !.state = "error"]

\* a catch block without the delete of line 99
openFailedSessionsKept(c) == sessions

\* open, line 99: the map after initialize failed
openFailedSessions(c) == [sessions EXCEPT ![c] = None]

\* open, lines 95-100 (initialize rejected, or the 30 s timer of withTimeout
\* fired first), then handleSessionStart line 220
InitFail(f) ==
    /\ MacrotaskTurn
    /\ task[f].pc = "awaitInit"
    /\ managed' = [managed EXCEPT ![task[f].rec] = openFailed(@)]
    /\ sdk' = [sdk EXCEPT ![task[f].rec].closeCalls = @ + 1]
    /\ sessions' = openFailedSessions(task[f].conn)
    /\ sent' = sendError(task[f].conn, "SESSION_INIT_FAILED", 0)
    /\ task' = [task EXCEPT ![f] = Idle]
    /\ UNCHANGED <<wsState, nConn, nRec, sweepTimer, pingTimer, maxConnections, wssRunning, nFrames>>

\* --------------------------------------- session manager: sendAndStream

\* sendAndStream that lets a busy record through
admitBusyAccepted(st) ==
    IF st \notin {"ready", "busy"} THEN "STREAM_ERROR" ELSE "accept"

\* sendAndStream without the test of line 115
admitNotReadyAccepted(st) ==
    IF st = "busy" THEN "SESSION_BUSY" ELSE "accept"

\* sendAndStream, lines 114-115: what it does with a record in state st
admit(st) ==
    IF st = "busy" THEN "SESSION_BUSY"
    ELSE IF st # "ready" THEN "STREAM_ERROR"
    ELSE "accept"

\* WsGateway.onMessage, 'message': handleClientMessage lines 225-236 and
\* sendAndStream lines 112-121, up to `await managed.session.send(message)`;
\* a throw of sendAndStream is caught at lines 239-244
Message(c, hasContent) ==
    /\ FrameTurn(c)
    /\ nFrames' = nFrames + 1
    /\ LET f == nFrames + 1
           r == sessions[c]
       IN  IF r = None
           THEN /\ sent' = sendError(c, "NO_SESSION", f)
                /\ UNCHANGED <<managed, sdk, task>>
           ELSE IF ~hasContent
           THEN /\ sent' = sendError(c, "BAD_MESSAGE", f)
                /\ UNCHANGED <<managed, sdk, task>>
           ELSE IF admit(managed[r].state) # "accept"
           THEN /\ sent' = sendError(c, admit(managed[r].state), f)
                /\ UNCHANGED <<managed, sdk, task>>
           ELSE /\ managed' = [managed EXCEPT ![r] =
                                  [@ EXCEPT !.state = "busy", !.idleFor = 0]]
                /\ sdk' = [sdk EXCEPT ![r].sendCalls = @ + 1]
                /\ task' = [task EXCEPT ![f] = [pc |-> "awaitSend", conn |-> c, rec |-> r]]
                /\ sent' = <<>>
    /\ UNCHANGED <<wsState, nConn, sessions, nRec, sweepTimer, pingTimer, maxConnections, wssRunning>>

\* session.send resolved: line 122 calls session.stream() and awaits its
\* first event
SendOk(f) ==
    /\ MacrotaskTurn
    /\ task[f].pc = "awaitSend"
    /\ task' = [task EXCEPT ![f].pc = "streaming"]
    /\ sent' = <<>>
    /\ UNCHANGED <<wsState, nConn, sessions, managed, nRec, sdk,
                   sweepTimer, pingTimer, maxConnections, wssRunning, nFrames>>

\* sendAndStream, lines 128-130, and handleClientMessage line 243: send or
\* the stream threw
TurnFail(f) ==
    /\ managed' = [managed EXCEPT ![task[f].rec].state = "error"]
    /\ sent' = sendError(task[f].conn, "STREAM_ERROR", f)
    /\ task' = [task EXCEPT ![f] = Idle]
    /\ UNCHANGED <<wsState, nConn, sessions, nRec, sdk, sweepTimer, pingTimer, maxConnections, wssRunning, nFrames>>

SendFail(f) ==
    /\ MacrotaskTurn
    /\ task[f].pc = "awaitSend"
    /\ TurnFail(f)

StreamFail(f) ==
    /\ MacrotaskTurn
    /\ task[f].pc = "streaming"
    /\ TurnFail(f)

\* a loop that stops at whatever event comes first
terminalAny(ty) == TRUE

\* a loop without the break of line 125
terminalNever(ty) == FALSE

\* sendAndStream, line 125: the event that ends the loop
terminal(ty) == ty = "result"

\* a switch with the result case only
forwardedResultOnly(ty) == ty = "result"

\* forwardStreamEvent: the cases of its switch
forwarded(ty) == ty \in {"assistant", "result"}

\* a sendAndStream that leaves the record busy when its loop is over
stateAfterLoopBusy == "busy"

\* sendAndStream, line 127: the state written when the loop is over
stateAfterLoop == "ready"

\* forwardStreamEvent: what it writes to connection c for SDK event number n
\* of type ty
forwardStreamEvent(c, ty, rid, n) ==
    IF forwarded(ty)
    THEN send(c, IF ty = "result" THEN "result" ELSE "stream", ty, rid, n)
    ELSE <<>>

\* the stream produced an event: sendAndStream lines 123-127, with
\* handleClientMessage line 237 run at the yield
StreamEvent(f, ty) ==
    /\ MacrotaskTurn
    /\ task[f].pc = "streaming"
    /\ sdk[task[f].rec].produced < MaxEvents
    /\ sdk' = [sdk EXCEPT ![task[f].rec].produced = @ + 1]
    /\ sent' = forwardStreamEvent(task[f].conn, ty, f, sdk[task[f].rec].produced + 1)
    /\ managed' = [managed EXCEPT ![task[f].rec] =
                      [@ EXCEPT !.idleFor = 0,
                                !.state = IF terminal(ty) THEN stateAfterLoop ELSE @]]
    /\ task' = IF terminal(ty) THEN [task EXCEPT ![f] = Idle] ELSE task
    /\ UNCHANGED <<wsState, nConn, sessions, nRec, sweepTimer, pingTimer, maxConnections, wssRunning, nFrames>>

\* the stream ended without a result: line 127
StreamEnd(f) ==
    /\ MacrotaskTurn
    /\ task[f].pc = "streaming"
    /\ managed' = [managed EXCEPT ![task[f].rec].state = stateAfterLoop]
    /\ task' = [task EXCEPT ![f] = Idle]
    /\ sent' = <<>>
    /\ UNCHANGED <<wsState, nConn, sessions, nRec, sdk, sweepTimer, pingTimer, maxConnections, wssRunning,
                   nFrames>>

\* ------------------------------------------------ session manager: abort

\* abort without the state test of line 137
abortsAnyState(st) == TRUE

\* abort, line 137: the states in which it goes on to session.abort()
aborts(st) == st = "busy"

\* WsGateway.onMessage, 'abort': AgentSessionManager.abort lines 136-139
Abort(c) ==
    /\ FrameTurn(c)
    /\ nFrames' = nFrames + 1
    /\ LET r == sessions[c]
       IN  IF r = None \/ ~aborts(managed[r].state)
           THEN UNCHANGED <<sdk, task>>
           ELSE /\ sdk' = [sdk EXCEPT ![r].abortCalls = @ + 1]
                /\ task' = [task EXCEPT ![nFrames + 1] =
                               [pc |-> "awaitAbort", conn |-> c, rec |-> r]]
    /\ sent' = <<>>
    /\ UNCHANGED <<wsState, nConn, sessions, managed, nRec,
                   sweepTimer, pingTimer, maxConnections, wssRunning>>

\* abort that resets the state inside the try block only
abortSettledOnSuccess(m, ok) == IF ok THEN [m EXCEPT !.state = "ready"] ELSE m

\* abort, lines 140-141: the record after session.abort() settled
\* (ok: it resolved; ~ok: it threw)
abortSettled(m, ok) == [m EXCEPT !.state = "ready"]

AbortReturn(f, ok) ==
    /\ MacrotaskTurn
    /\ task[f].pc = "awaitAbort"
    /\ managed' = [managed EXCEPT ![task[f].rec] = abortSettled(@, ok)]
    /\ task' = [task EXCEPT ![f] = Idle]
    /\ sent' = <<>>
    /\ UNCHANGED <<wsState, nConn, sessions, nRec, sdk, sweepTimer, pingTimer, maxConnections, wssRunning,
                   nFrames>>

\* ------------------------------------------------ session manager: close

\* WsGateway.onMessage, 'session_close'
SessionClose(c) ==
    /\ FrameTurn(c)
    /\ nFrames' = nFrames + 1
    /\ close(c)
    /\ sent' = <<>>
    /\ UNCHANGED <<wsState, nConn, nRec, sweepTimer, pingTimer, maxConnections, wssRunning, task>>

\* a handleSessionStart that reaches open, and its close, before it
\* rejects the frame
BadFrameAfterClose(c, hasRequestId) ==
    /\ FrameTurn(c)
    /\ nFrames' = nFrames + 1
    /\ close(c)
    /\ sent' = sendError(c, "BAD_MESSAGE", 0)
    /\ UNCHANGED <<wsState, nConn, nRec, sweepTimer, pingTimer, maxConnections, wssRunning, task>>

\* a gateway that closes the socket of a client that sent a bad frame
BadFrameClosesSocket(c, hasRequestId) ==
    /\ FrameTurn(c)
    /\ nFrames' = nFrames + 1
    /\ sent' = sendError(c, "BAD_MESSAGE", 0)
    /\ wsState' = [wsState EXCEPT ![c] = "closed"]
    /\ UNCHANGED <<nConn, sessions, managed, nRec, sdk,
                   sweepTimer, pingTimer, maxConnections, wssRunning, task>>

\* WsGateway.onMessage lines 175-185 and 200-201, handleSessionStart lines
\* 206-208: a frame that is not JSON, has no or an unknown type, or is a
\* session_start without agent_id; hasRequestId: the frame has a request_id
\* field, which none of these paths reads
BadFrame(c, hasRequestId) ==
    /\ FrameTurn(c)
    /\ nFrames' = nFrames + 1
    /\ sent' = sendError(c, "BAD_MESSAGE", 0)
    /\ UNCHANGED <<wsState, nConn, sessions, managed, nRec, sdk,
                   sweepTimer, pingTimer, maxConnections, wssRunning, task>>

\* ------------------------------------------------------------- idle sweep

\* sweepIdle without the busy test of line 185
evictableBusyToo(m) == m.idleFor > idleTimeoutMs

\* sweepIdle comparing with >= instead of >
evictableAtTimeout(m) == m.state # "busy" /\ m.idleFor >= idleTimeoutMs

\* sweepIdle, lines 185-186: the record is evicted
evictable(m) == m.state # "busy" /\ m.idleFor > idleTimeoutMs

\* the connections whose record one sweep pass evicts
Evicted == {c \in Conns : sessions[c] # None /\ evictable(managed[sessions[c]])}

\* AgentSessionManager.sweepIdle, fired by the interval timer
SweepIdle ==
    /\ MacrotaskTurn
    /\ sweepTimer
    /\ sdk' = [r \in Recs |->
                 IF \E c \in Evicted : sessions[c] = r
                 THEN [sdk[r] EXCEPT !.closeCalls = @ + 1] ELSE sdk[r]]
    /\ sessions' = [c \in Conns |-> IF c \in Evicted THEN None ELSE sessions[c]]
    /\ sent' = <<>>
    /\ UNCHANGED <<wsState, nConn, managed, nRec, sweepTimer, pingTimer, maxConnections, wssRunning, task,
                   nFrames>>

\* --------------------------------------------------------------- shutdown

\* a shutdown that closes the first session of the map only
idsFirstOnly ==
    {c \in Conns : sessions[c] # None /\ \A d \in Conns : sessions[d] # None => c <= d}

\* AgentSessionManager.shutdown, line 176: the keys of the map
ids == {c \in Conns : sessions[c] # None}

\* WsGateway.shutdown, lines 130-132: ws.terminate() on every client
terminated == [c \in Conns |-> IF wsState[c] = "open" THEN "closed" ELSE wsState[c]]

\* a shutdown that terminates the sockets before it awaits the manager
socketsAtAwaitTerminated == terminated

\* WsGateway.shutdown, lines 125-129: no socket is touched before the await
socketsAtAwait == wsState

\* WsGateway.shutdown up to its await, lines 125-129: clear the ping timer,
\* then the synchronous part of AgentSessionManager.shutdown (clear the sweep
\* timer, close every record)
Shutdown ==
    /\ MacrotaskTurn
    /\ pingTimer
    /\ pingTimer' = FALSE
    /\ sweepTimer' = FALSE
    /\ wsState' = socketsAtAwait
    /\ UNCHANGED <<maxConnections, wssRunning>>
    /\ managed' = [r \in Recs |->
                     IF \E c \in ids : sessions[c] = r
                     THEN [managed[r] EXCEPT !.state = "closed"] ELSE managed[r]]
    /\ sdk' = [r \in Recs |->
                 IF \E c \in ids : sessions[c] = r
                 THEN [sdk[r] EXCEPT !.closeCalls = @ + 1] ELSE sdk[r]]
    /\ sessions' = [c \in Conns |-> IF c \in ids THEN None ELSE sessions[c]]
    /\ sent' = <<>>
    /\ UNCHANGED <<nConn, nRec, task, nFrames>>

\* WsGateway.shutdown after its await, lines 130-133: terminate every socket
\* and close the server
ShutdownContinue ==
    /\ ShutdownPending
    /\ wsState' = terminated
    /\ wssRunning' = FALSE
    /\ sent' = <<>>
    /\ UNCHANGED <<nConn, sessions, managed, nRec, sdk, sweepTimer, pingTimer,
                   maxConnections, task, nFrames>>

\* WsGateway.pingAll, lines 289-295, run by the interval timer of line 93
\* while it is set: a ping to every open socket
PingAll ==
    /\ MacrotaskTurn
    /\ pingTimer
    /\ \E c \in Conns : wsState[c] = "open"
    /\ sent' = [i \in 1..Cardinality({c \in Conns : wsState[c] = "open"}) |->
                  Frame(CHOOSE c \in Conns :
                            /\ wsState[c] = "open"
                            /\ Cardinality({d \in 1..c : wsState[d] = "open"}) = i,
                        "ping", "", 0, 0)]
    /\ UNCHANGED <<wsState, nConn, sessions, managed, nRec, sdk, sweepTimer,
                   pingTimer, maxConnections, wssRunning, task, nFrames>>

\* Date.now() advances by one tick
Tick ==
    /\ managed' = [r \in Recs |->
                     IF managed[r].state # "none" /\ managed[r].idleFor < MaxIdle
                     THEN [managed[r] EXCEPT !.idleFor = @ + 1] ELSE managed[r]]
    /\ sent' = <<>>
    /\ UNCHANGED <<wsState, nConn, sessions, nRec, sdk, sweepTimer, pingTimer, maxConnections, wssRunning, task, nFrames>>

\* every step on connections that exist, but the arrival of a session_start
\* frame
Serve ==
    \/ \E c \in Conns : ConnDrop(c)
    \/ \E f \in Frames : OpenContinue(f)
    \/ \E f \in Frames : InitOk(f)
    \/ \E f \in Frames : InitFail(f)
    \/ \E c \in Conns, hasContent \in BOOLEAN : Message(c, hasContent)
    \/ \E f \in Frames : SendOk(f)
    \/ \E f \in Frames : SendFail(f)
    \/ \E f \in Frames, ty \in SDKMessageType : StreamEvent(f, ty)
    \/ \E f \in Frames : StreamEnd(f)
    \/ \E f \in Frames : StreamFail(f)
    \/ \E c \in Conns : Abort(c)
    \/ \E f \in Frames, ok \in BOOLEAN : AbortReturn(f, ok)
    \/ \E c \in Conns : SessionClose(c)
    \/ \E c \in Conns, hasRequestId \in BOOLEAN : BadFrame(c, hasRequestId)
    \/ SweepIdle
    \/ Shutdown
    \/ ShutdownContinue
    \/ Tick

\* every step but the arrival of a session_start frame.  An upgrade request
\* with a bad key changes nothing but the response on its raw socket: only
\* the runs that look at admission (NextCapped) include it.
Other ==
    \/ Upgrade(TRUE)
    \/ Serve

Next ==
    \/ \E c \in Conns : SessionStart(c)
    \/ Other

Spec == Init /\ [][Next]_vars

\* an open for connection c has not returned yet
OpenInFlight(c) ==
    \E f \in Frames : task[f].conn = c /\ task[f].pc \in {"afterClose", "awaitInit"}

\* a single client that sends session_start only after its previous one was
\* answered
NextSeq ==
    \/ Upgrade(TRUE) /\ nConn' <= 1
    \/ \E c \in Conns : ~OpenInFlight(c) /\ SessionStart(c)
    \/ Serve

SpecSeq == Init /\ [][NextSeq]_vars

\* an initialize that is not raced against a timer
FairnessNoInitTimer ==
    /\ WF_vars(\E f \in Frames : OpenContinue(f))
    /\ WF_vars(ShutdownContinue)
    /\ WF_vars(SweepIdle)
    /\ WF_vars(Tick)

\* what the event loop guarantees: a queued microtask runs, the interval
\* timer fires, time passes, and the timer of withTimeout (lines 205-211)
\* settles a pending initialize.  Nothing else is assumed of the client or
\* the SDK.
Fairness ==
    /\ WF_vars(\E f \in Frames : OpenContinue(f))
    /\ WF_vars(ShutdownContinue)
    /\ WF_vars(SweepIdle)
    /\ WF_vars(Tick)
    /\ WF_vars(\E f \in Frames : InitOk(f) \/ InitFail(f))

\* runs in which a single client connects
NextSolo ==
    \/ Upgrade(TRUE) /\ nConn' <= 1
    \/ \E c \in Conns : SessionStart(c)
    \/ Serve

SpecSolo == Init /\ [][NextSolo]_vars

FairSpec == Init /\ [][NextSolo]_vars /\ Fairness

\* every step, the upgrade requests with a bad key included
NextCapped ==
    \/ Next
    \/ Upgrade(FALSE)

SpecCapped == InitCapped /\ [][NextCapped]_vars

\* the keepalive timer changes nothing but the pings on the wire (the pong
\* handler, line 168, is empty): only the runs that look at pings include it
NextPing ==
    \/ NextSolo
    \/ PingAll

SpecPing == Init /\ [][NextPing]_vars

\* ================================================================ claims

\* the sendAndStream invocations on record r that have called session.send
\* and have not terminated
TurnsInFlight(r) ==
    {f \in Frames : task[f].rec = r /\ task[f].pc \in {"awaitSend", "streaming"}}

Mapped(r) == \E c \in Conns : sessions[c] = r

Created(r) == managed[r].state # "none"

\* C1: a message that arrives while its connection's record is busy is
\* answered by exactly one error SESSION_BUSY echoing its request_id; no
\* call is made on the SDK session, no record changes (the record stays
\* busy) and every handler in flight stays where it is.
C1_SingleFlight ==
    [][\A c \in Conns :
          (/\ sessions[c] # None
           /\ managed[sessions[c]].state = "busy"
           /\ Message(c, TRUE))
          => /\ sent' = <<Frame(c, "error", "SESSION_BUSY", nFrames + 1, 0)>>
             /\ sdk' = sdk
             /\ managed' = managed
             /\ sessions' = sessions
             /\ task' = task]_vars

\* C1 witness: SESSION_BUSY was just written while the record is still busy
\* and the turn that made it busy is still in flight.
C1_Witness ==
    \E c \in Conns :
        /\ sent # <<>>
        /\ sent[1].conn = c
        /\ sent[1].code = "SESSION_BUSY"
        /\ sessions[c] # None
        /\ managed[sessions[c]].state = "busy"
        /\ TurnsInFlight(sessions[c]) # {}

\* C2: at most one sendAndStream invocation per SDK session has called
\* send and not yet terminated.
C2_OneTurnInFlight ==
    \A r \in Recs : Cardinality(TurnsInFlight(r)) <= 1

\* the SDK sessions of connection c that were created and never released
Live(c) == {r \in Recs : Created(r) /\ managed[r].conn = c /\ sdk[r].closeCalls = 0}

\* C3: when every open of a connection starts after the previous one has
\* returned, the connection has at most one live SDK session, the one of
\* its current record; an open that finds a record closes it (one release,
\* record dropped) without reporting an error.
C3_ReplaceLeavesOneLive ==
    /\ [](\A c \in Conns :
            /\ Live(c) \subseteq {sessions[c]}
            /\ sessions[c] # None => Live(c) = {sessions[c]})
    /\ [][\A c \in Conns :
            (sessions[c] # None /\ SessionStart(c))
            => /\ sdk'[sessions[c]].closeCalls = sdk[sessions[c]].closeCalls + 1
               /\ sessions'[c] = None
               /\ sent' = <<>>]_vars
    /\ [][\A f \in Frames :
            OpenContinue(f)
            => /\ sessions'[task[f].conn] = nRec'
               /\ Live(task[f].conn)' = {nRec'}]_vars

\* C3 witness: the second open of a connection has completed; its record
\* is the current one and the first record's session was released once.
C3_Witness ==
    \E c \in Conns, r1, r2 \in Recs :
        /\ r1 < r2
        /\ sessions[c] = r2
        /\ managed[r2].state = "ready"
        /\ managed[r1].conn = c
        /\ managed[r1].state = "closed"
        /\ managed[r1].conversationId = "confirmed"
        /\ sdk[r1].closeCalls = 1
        /\ sdk[r2].closeCalls = 0

\* C4: release is attempted exactly once on every SDK session whose record
\* is gone, and never on one whose record is still held.
C4_ReleasedExactlyOnce ==
    \A r \in Recs :
        Created(r) => sdk[r].closeCalls = (IF Mapped(r) THEN 0 ELSE 1)

\* C5: a sweep pass leaves every busy record in the map and does not
\* release its session, however long the record has been idle.
C5_SweepSkipsBusy ==
    [][SweepIdle =>
          \A c \in Conns :
              (sessions[c] # None /\ managed[sessions[c]].state = "busy")
              => /\ sessions'[c] = sessions[c]
                 /\ sdk'[sessions[c]] = sdk[sessions[c]]]_vars

\* C5 witness: a busy record idle for longer than the timeout is still
\* held, unreleased, with the sweep timer running.
C5_Witness ==
    \E c \in Conns :
        /\ sessions[c] # None
        /\ managed[sessions[c]].state = "busy"
        /\ managed[sessions[c]].idleFor > idleTimeoutMs
        /\ sdk[sessions[c]].closeCalls = 0
        /\ sweepTimer

\* C6: a sweep pass removes exactly the records that are not busy and
\* idle for strictly longer than the timeout, releasing each one's session
\* once; it changes no other record, session or map entry.
C6_SweepExact ==
    [][SweepIdle =>
          /\ managed' = managed
          /\ \A r \in Recs : ~Mapped(r) => sdk'[r] = sdk[r]
          /\ \A c \in Conns :
               sessions[c] # None =>
                 IF /\ managed[sessions[c]].state \in {"ready", "initializing", "error"}
                    /\ managed[sessions[c]].idleFor > idleTimeoutMs
                 THEN /\ sessions'[c] = None
                      /\ sdk'[sessions[c]] =
                            [sdk[sessions[c]] EXCEPT !.closeCalls = @ + 1]
                 ELSE /\ sessions'[c] = sessions[c]
                      /\ sdk'[sessions[c]] = sdk[sessions[c]]]_vars

\* C6 witness: a record was evicted while initializing (only the sweep
\* releases a session without touching the record's state).
C6_Witness ==
    \E r \in Recs :
        /\ managed[r].state = "initializing"
        /\ ~Mapped(r)
        /\ sdk[r].closeCalls = 1

\* C7: when session.abort() settles, resolved or thrown, the record's
\* state is ready and nothing is written to the client.
C7_AbortEndsReady ==
    [][\A f \in Frames, ok \in BOOLEAN :
          AbortReturn(f, ok)
          => /\ managed'[task[f].rec].state = "ready"
             /\ sent' = <<>>]_vars

\* C7 witness: abort has returned on a turn that is still in flight: the
\* record is ready while its turn has not terminated.
C7_Witness ==
    \E f \in Frames :
        /\ task[f].pc \in {"awaitSend", "streaming"}
        /\ managed[task[f].rec].state = "ready"
        /\ sdk[task[f].rec].abortCalls = 1

\* C8: once abort has put the record back to ready, the progress of the
\* aborted turn's stream (an event, its end or its failure) leaves the
\* record ready.
C8_AbortAuthoritative ==
    [][\A f \in Frames :
          (/\ task[f].pc = "streaming"
           /\ managed[task[f].rec].state = "ready"
           /\ \/ StreamFail(f) \/ StreamEnd(f)
              \/ \E ty \in SDKMessageType : StreamEvent(f, ty))
          => managed'[task[f].rec].state = "ready"]_vars

\* C9: an abort that has been requested on a busy record is followed by the
\* record leaving busy.
C9_AbortLeavesBusy ==
    \A r \in Recs :
        (\E f \in Frames : task[f].pc = "awaitAbort" /\ task[f].rec = r)
            ~> (managed[r].state # "busy")

\* the stream and result frames of sent that carry request_id f
TurnFrames(s, f) ==
    SelectSeq(s, LAMBDA e : e.rid = f /\ e.type \in {"stream", "result"})

\* C10 as stated: the handler of an accepted message terminates having
\* written the result frame of its request_id.
C10_ExactlyOneResult ==
    [][\A f \in Frames :
          (task[f].pc \in {"awaitSend", "streaming"} /\ task'[f].pc = "idle"
           /\ wsState[task[f].conn] = "open")
          => sent' = <<Frame(task[f].conn, "result", "result", f, sdk'[task[f].rec].produced)>>]_vars

\* C10 amended: stream and result frames with request_id f are written
\* only by the running turn of message f; the first result frame ends that
\* turn, so at most one result is written per message; a turn that ends
\* without a result ends silently (the stream ended) or with one error
\* STREAM_ERROR carrying f.
C10_AtMostOneResult ==
    [][\A f \in Frames :
          /\ TurnFrames(sent', f) # <<>>
               => /\ task[f].pc = "streaming"
                  /\ Len(sent') = 1
          /\ (TurnFrames(sent', f) # <<>> /\ sent'[1].type = "result")
               => task'[f].pc = "idle"
          /\ (task[f].pc \in {"awaitSend", "streaming"} /\ task'[f].pc = "idle"
              /\ wsState[task[f].conn] = "open")
               => \/ sent' = <<Frame(task[f].conn, "result", "result", f,
                                     sdk'[task[f].rec].produced)>>
                  \/ sent' = <<>> /\ task[f].pc = "streaming"
                  \/ sent' = <<Frame(task[f].conn, "error", "STREAM_ERROR", f, 0)>>]_vars

\* C10 witness: the result frame of a message has just been written and
\* its handler has terminated.
C10_Witness ==
    \E f \in Frames :
        /\ sent # <<>>
        /\ sent[1].type = "result"
        /\ sent[1].rid = f
        /\ task[f].pc = "idle"

\* C11: a message on a connection that has no record (fresh, closed,
\* failed open, evicted) is answered by exactly one error NO_SESSION
\* echoing its request_id; no SDK session is created or called, no record
\* or handler changes, and the connection stays open.
C11_NoSession ==
    [][\A c \in Conns, hasContent \in BOOLEAN :
          (sessions[c] = None /\ Message(c, hasContent))
          => /\ sent' = <<Frame(c, "error", "NO_SESSION", nFrames + 1, 0)>>
             /\ sdk' = sdk
             /\ nRec' = nRec
             /\ managed' = managed
             /\ sessions' = sessions
             /\ task' = task
             /\ wsState'[c] = "open"]_vars

\* C11 witness: NO_SESSION was just written on an open connection whose
\* only session_start failed.
C11_Witness ==
    \E c \in Conns, r \in Recs :
        /\ sent = <<Frame(c, "error", "NO_SESSION", nFrames, 0)>>
        /\ wsState[c] = "open"
        /\ sessions[c] = None
        /\ managed[r].conn = c
        /\ managed[r].state = "error"
        /\ sdk[r].closeCalls = 1

\* C12: shutdown empties the map, marks every record that was in it
\* closed and attempts one release on each of their SDK sessions, whatever
\* their states; it stops the sweep timer, which is never set again, so no
\* sweep pass runs afterwards.
C12_ShutdownClosesAll ==
    /\ [][Shutdown =>
            /\ \A c \in Conns : sessions'[c] = None
            /\ \A r \in Recs :
                 IF Mapped(r)
                 THEN /\ sdk'[r] = [sdk[r] EXCEPT !.closeCalls = @ + 1]
                      /\ managed'[r].state = "closed"
                 ELSE sdk'[r] = sdk[r] /\ managed'[r] = managed[r]
            /\ ~sweepTimer']_vars
    /\ [][~sweepTimer => ~sweepTimer' /\ ~SweepIdle]_vars

\* C12 witness: shutdown has run with two sessions open on two
\* connections, one of them in the middle of a turn; both were released.
C12_Witness ==
    \E r1, r2 \in Recs, f \in Frames :
        /\ ~sweepTimer
        /\ managed[r1].conn # managed[r2].conn
        /\ managed[r1].state = "closed" /\ managed[r2].state = "closed"
        /\ sdk[r1].closeCalls = 1 /\ sdk[r2].closeCalls = 1
        /\ task[f].rec = r1 /\ task[f].pc = "streaming"
        /\ \A c \in Conns : sessions[c] = None /\ wsState[c] = "closed"

\* C13: when initialize fails or times out, the record goes to error, one
\* release is attempted on its SDK session, the connection has no record
\* afterwards, and the handler ends having written exactly one error
\* SESSION_INIT_FAILED, and no session_init, to the connection if it is
\* still open.
C13_InitFailure ==
    [][\A f \in Frames :
          InitFail(f)
          => /\ managed'[task[f].rec].state = "error"
             /\ sdk'[task[f].rec].closeCalls = sdk[task[f].rec].closeCalls + 1
             /\ sessions'[task[f].conn] = None
             /\ task'[f].pc = "idle"
             /\ sent' = IF wsState[task[f].conn] = "open"
                        THEN <<Frame(task[f].conn, "error", "SESSION_INIT_FAILED", 0, 0)>>
                        ELSE <<>>]_vars

\* C13 witness: SESSION_INIT_FAILED has just been written to an open
\* connection that is left without a record; the failed record is in error
\* and its session was released once.
C13_Witness ==
    \E c \in Conns, r \in Recs :
        /\ sent = <<Frame(c, "error", "SESSION_INIT_FAILED", 0, 0)>>
        /\ wsState[c] = "open"
        /\ sessions[c] = None
        /\ managed[r].conn = c
        /\ managed[r].state = "error"
        /\ managed[r].conversationId = "null"
        /\ sdk[r].closeCalls = 1
        /\ \A f \in Frames : task[f].pc = "idle"

\* C14: whenever open returns the init result and session_init is written,
\* the map holds, for that connection, the record whose session was
\* initialized, in state ready with the confirmed conversation id.
C14_InitMeansRecord ==
    [][\A f \in Frames :
          (InitOk(f) /\ sent' # <<>>)
          => /\ sessions'[task[f].conn] = task[f].rec
             /\ managed'[task[f].rec].state = "ready"
             /\ managed'[task[f].rec].conversationId = "confirmed"]_vars

\* C15: no record stays in state initializing forever and the open that
\* created it returns: a pending initialize is settled at the latest by the
\* timer of withTimeout, and the failure path releases the SDK session and
\* removes the connection's record.
C15_OpenBounded ==
    /\ \A r \in Recs :
          (managed[r].state = "initializing")
             ~> (/\ managed[r].state # "initializing"
                 /\ \A f \in Frames : task[f].rec = r => task[f].pc # "awaitInit")
    /\ [][\A f \in Frames :
            InitFail(f)
            => /\ sdk'[task[f].rec].closeCalls > sdk[task[f].rec].closeCalls
               /\ sessions'[task[f].conn] = None
               /\ managed'[task[f].rec].state # "initializing"]_vars

\* C15 witness: an open whose initialize stayed pending until the record
\* had idled past the timeout has failed; the session was released and the
\* record is gone from the map.
C15_Witness ==
    \E r \in Recs :
        /\ managed[r].state = "error"
        /\ managed[r].conversationId = "null"
        /\ managed[r].idleFor = MaxIdle
        /\ sdk[r].closeCalls = 1
        /\ ~Mapped(r)
        /\ \A f \in Frames : task[f].rec # r

\* C16: once a record's state is closed it stays closed.
C16_ClosedIsTerminal ==
    [][\A r \in Recs :
          managed[r].state = "closed" => managed'[r].state = "closed"]_vars

\* the changes of a record's state that the state machine allows
AllowedTransition(old, new) ==
    \/ old = "none" /\ new = "initializing"
    \/ old = "initializing" /\ new = "ready"
    \/ old = "ready" /\ new = "busy"
    \/ old = "busy" /\ new = "ready"
    \/ new = "error"
    \/ new = "closed"

\* C17: every change of a record's state is initializing to ready, ready
\* to busy, busy to ready, anything to error or anything to closed.
C17_AllowedTransitions ==
    [][\A r \in Recs :
          managed'[r].state # managed[r].state
          => AllowedTransition(managed[r].state, managed'[r].state)]_vars

\* C18: session_close on a connection without a record changes no record,
\* no map entry and calls no SDK session; on a connection with a record it
\* marks that record closed, attempts one release and removes it from the
\* map, touching nothing else; either way nothing is written to the client,
\* and a close that follows finds no record.
C18_CloseIdempotent ==
    [][\A c \in Conns :
          SessionClose(c)
          => /\ sent' = <<>>
             /\ task' = task
             /\ sessions'[c] = None
             /\ \A d \in Conns : d # c => sessions'[d] = sessions[d]
             /\ \A r \in Recs :
                  IF sessions[c] = r
                  THEN /\ managed'[r] = [managed[r] EXCEPT !.state = "closed"]
                       /\ sdk'[r] = [sdk[r] EXCEPT !.closeCalls = @ + 1]
                  ELSE managed'[r] = managed[r] /\ sdk'[r] = sdk[r]]_vars

\* C18 witness: three frames were handled on an open connection, the
\* first a session_start; its record was closed while initializing and
\* released exactly once, whatever followed.
C18_Witness ==
    \E c \in Conns, r \in Recs, f \in Frames :
        /\ wsState[c] = "open"
        /\ nConn = 1
        /\ nFrames = 3
        /\ nRec = 1
        /\ task[f].pc = "awaitInit" /\ task[f].rec = r
        /\ managed[r].conn = c
        /\ managed[r].state = "closed"
        /\ sdk[r].closeCalls = 1
        /\ sessions[c] = None

\* C19: a throw of send or of the stream puts the record in error and
\* writes exactly one error STREAM_ERROR with the request_id; send is not
\* called again for that message; and a record in error rejects every
\* message and leaves error only by being closed (session_close,
\* session_start).
C19_ErrorNeedsRestart ==
    /\ [][\A f \in Frames :
            (SendFail(f) \/ StreamFail(f))
            => /\ managed'[task[f].rec].state = "error"
               /\ sdk' = sdk
               /\ task'[f].pc = "idle"
               /\ sent' = IF wsState[task[f].conn] = "open"
                          THEN <<Frame(task[f].conn, "error", "STREAM_ERROR", f, 0)>>
                          ELSE <<>>]_vars
    /\ [][\A c \in Conns :
            (/\ sessions[c] # None
             /\ managed[sessions[c]].state = "error"
             /\ Message(c, TRUE))
            => /\ sent' = <<Frame(c, "error", "STREAM_ERROR", nFrames + 1, 0)>>
               /\ sdk' = sdk]_vars
    /\ [][\A r \in Recs :
            managed[r].state = "error" => managed'[r].state \in {"error", "closed"}]_vars

\* C20: session.send is called, and a record made busy, only by a message
\* whose connection has a record in state ready; a message that finds its
\* record initializing or in error (a closed record is not in the map) is
\* answered by one error, calls nothing on the SDK session and leaves every
\* record, its state and its idle time, unchanged.
C20_TurnOnlyWhenReady ==
    /\ [][\A r \in Recs :
            (\/ sdk'[r].sendCalls # sdk[r].sendCalls
             \/ managed'[r].state = "busy" /\ managed[r].state # "busy")
            => \E c \in Conns :
                  /\ Message(c, TRUE)
                  /\ sessions[c] = r
                  /\ managed[r].state = "ready"
                  /\ sdk'[r].sendCalls = sdk[r].sendCalls + 1
                  /\ managed'[r].state = "busy"]_vars
    /\ [][\A c \in Conns :
            (/\ sessions[c] # None
             /\ managed[sessions[c]].state \in {"initializing", "error", "closed"}
             /\ Message(c, TRUE))
            => /\ sdk' = sdk
               /\ managed' = managed
               /\ task' = task
               /\ sent' = <<Frame(c, "error", "STREAM_ERROR", nFrames + 1, 0)>>]_vars
    /\ [](\A c \in Conns : sessions[c] # None => managed[sessions[c]].state # "closed")

\* C20 witness: a message has just been refused with STREAM_ERROR because
\* its record is still initializing; send was never called on the session.
C20_Witness ==
    \E c \in Conns :
        /\ sessions[c] # None
        /\ managed[sessions[c]].state = "initializing"
        /\ sdk[sessions[c]].sendCalls = 0
        /\ sent = <<Frame(c, "error", "STREAM_ERROR", nFrames, 0)>>

\* C21: a turn's event sequence goes on after an event that is not a
\* result and terminates at the first result or when the stream ends, the
\* record's state being set to ready at that moment; once the turn has
\* terminated nothing more carrying its request_id is written.
C21_TurnTerminates ==
    /\ [][\A f \in Frames, ty \in SDKMessageType :
            (task[f].pc = "streaming" /\ StreamEvent(f, ty))
            => IF ty = "result"
               THEN /\ task'[f].pc = "idle"
                    /\ managed'[task[f].rec].state = "ready"
               ELSE /\ task'[f] = task[f]
                    /\ managed'[task[f].rec].state = managed[task[f].rec].state]_vars
    /\ [][\A f \in Frames :
            (task[f].pc = "streaming" /\ StreamEnd(f))
            => /\ task'[f].pc = "idle"
               /\ managed'[task[f].rec].state = "ready"
               /\ sent' = <<>>]_vars
    /\ [][\A f \in Frames :
            task[f].pc # "streaming"
            => \A i \in 1..Len(sent') : sent'[i].rid # f \/ sent'[i].type = "error"]_vars

\* C21 witness: a turn has just ended on its result, which came second in
\* the stream; the record is ready again and the handler is gone.
C21_Witness ==
    \E f \in Frames, c \in Conns :
        /\ sessions[c] # None
        /\ sent = <<Frame(c, "result", "result", f, 2)>>
        /\ managed[sessions[c]].state = "ready"
        /\ sdk[sessions[c]].produced = 2
        /\ task[f].pc = "idle"
        /\ TurnsInFlight(sessions[c]) = {}

\* C22: a frame that is not JSON, has no or an unknown type, or is a
\* session_start without agent_id, and a message without content on a
\* connection that has a record, are each answered by exactly one error
\* BAD_MESSAGE; the connection stays open and no record, map entry, SDK
\* session or handler changes.
C22_BadMessage ==
    /\ [][\A c \in Conns, hasRequestId \in BOOLEAN :
            (wsState[c] = "open" /\ BadFrame(c, hasRequestId))
            => /\ sent' = <<Frame(c, "error", "BAD_MESSAGE", 0, 0)>>
               /\ UNCHANGED <<wsState, sessions, managed, sdk, nRec, task>>]_vars
    /\ [][\A c \in Conns :
            (wsState[c] = "open" /\ sessions[c] # None /\ Message(c, FALSE))
            => /\ sent' = <<Frame(c, "error", "BAD_MESSAGE", nFrames + 1, 0)>>
               /\ UNCHANGED <<wsState, sessions, managed, sdk, nRec, task>>]_vars

\* C22 witness: BAD_MESSAGE has just been written on a connection whose
\* session is in the middle of a turn, and the turn goes on.
C22_Witness ==
    \E c \in Conns :
        /\ sent # <<>>
        /\ sent[1].conn = c /\ sent[1].code = "BAD_MESSAGE"
        /\ wsState[c] = "open"
        /\ sessions[c] # None
        /\ managed[sessions[c]].state = "busy"
        /\ sdk[sessions[c]].closeCalls = 0
        /\ \E f \in Frames : task[f].rec = sessions[c] /\ task[f].pc = "streaming"

\* ErrorCode, ws-gateway.ts lines 50-57
ErrorCode ==
    {"AUTH_FAILED", "BAD_MESSAGE", "NO_SESSION", "SESSION_BUSY",
     "SESSION_INIT_FAILED", "STREAM_ERROR"}

\* exactly one error frame, written to connection c, with a code of
\* ErrorCode and request_id rid (0: none)
OneError(s, c, rid) ==
    /\ Len(s) = 1
    /\ s[1].conn = c
    /\ s[1].type = "error"
    /\ s[1].code \in ErrorCode
    /\ s[1].rid = rid

\* a message frame on c that is refused: no record, no content, or a
\* record that is not ready
Refused(c, hasContent) ==
    \/ sessions[c] = None
    \/ ~hasContent
    \/ managed[sessions[c]].state # "ready"

\* the frames other than malformed ones that end in an error: each gets
\* exactly one typed error; those of a message carry its request_id, that
\* of a failed session_start carries none
ErrorsOfRequests ==
    /\ [][\A c \in Conns, hasContent \in BOOLEAN :
            (wsState[c] = "open" /\ Refused(c, hasContent) /\ Message(c, hasContent))
            => OneError(sent', c, nFrames + 1)]_vars
    /\ [][\A f \in Frames :
            (task[f].pc = "awaitInit" /\ wsState[task[f].conn] = "open" /\ InitFail(f))
            => OneError(sent', task[f].conn, 0)]_vars
    /\ [][\A f \in Frames :
            (/\ task[f].pc \in {"awaitSend", "streaming"}
             /\ wsState[task[f].conn] = "open"
             /\ SendFail(f) \/ StreamFail(f))
            => OneError(sent', task[f].conn, f)]_vars

\* C23 as stated: every frame that cannot be served gets exactly one typed
\* error that carries the frame's request_id whenever the frame had one,
\* malformed frames included.
C23_ErrorEchoesRequestId ==
    /\ ErrorsOfRequests
    /\ [][\A c \in Conns, hasRequestId \in BOOLEAN :
            (wsState[c] = "open" /\ BadFrame(c, hasRequestId))
            => OneError(sent', c, IF hasRequestId THEN nFrames + 1 ELSE 0)]_vars

\* C23 amended: every frame that cannot be served gets exactly one typed
\* error; the error carries the request_id of a message frame, and none
\* for a malformed frame, whether or not that frame had one.
C23_ErrorPerRequest ==
    /\ ErrorsOfRequests
    /\ [][\A c \in Conns, hasRequestId \in BOOLEAN :
            (wsState[c] = "open" /\ BadFrame(c, hasRequestId))
            => OneError(sent', c, 0)]_vars

\* C23 witness: the third frame of a connection, a message, has just been
\* refused with STREAM_ERROR and its request_id because the turn of the
\* second frame left the record in error.
C23_Witness ==
    \E c \in Conns :
        /\ nConn = 1 /\ nRec = 1 /\ nFrames = 3
        /\ sessions[c] # None
        /\ managed[sessions[c]].state = "error"
        /\ sdk[sessions[c]].sendCalls = 1
        /\ sent = <<Frame(c, "error", "STREAM_ERROR", 3, 0)>>

\* C24: a message that arrives while the session_start before it on the
\* same connection is still being handled is not refused for want of a
\* ready session: it waits for that session.
C24_ArrivalOrder ==
    [][\A c \in Conns :
          (wsState[c] = "open" /\ OpenInFlight(c) /\ Message(c, TRUE))
          => \A i \in 1..Len(sent') :
                sent'[i].code \notin {"NO_SESSION", "STREAM_ERROR"}]_vars

\* stream and result frames are written by the step that takes an event
\* from the stream, and by no other
OnlyStreamEventForwards ==
    [][(\E i \in 1..Len(sent') : sent'[i].type \in {"stream", "result"})
          => \E f \in Frames :
                /\ task[f].pc = "streaming"
                /\ \E ty \in SDKMessageType : StreamEvent(f, ty)]_vars

\* C25 as stated: every event the stream produces for a turn is forwarded.
C25_EveryEventForwarded ==
    [][\A f \in Frames, ty \in SDKMessageType :
          (/\ task[f].pc = "streaming"
           /\ wsState[task[f].conn] = "open"
           /\ StreamEvent(f, ty))
          => Len(sent') = 1]_vars

\* C25 amended: the step that takes an event from a turn's stream writes
\* that event, and nothing else, to the turn's connection with the turn's
\* request_id when its type has a case in forwardStreamEvent, and writes
\* nothing when it has none; the event written is always the latest one
\* produced, so none is repeated or overtaken, and nothing is forwarded by
\* any other step, in particular not when the stream ends.
C25_ForwardedInOrder ==
    /\ OnlyStreamEventForwards
    /\ [][\A f \in Frames, ty \in SDKMessageType :
            (/\ task[f].pc = "streaming"
             /\ wsState[task[f].conn] = "open"
             /\ StreamEvent(f, ty))
            => /\ sdk'[task[f].rec].produced = sdk[task[f].rec].produced + 1
               /\ sent' = IF ty \in {"assistant", "result"}
                          THEN <<Frame(task[f].conn,
                                       IF ty = "result" THEN "result" ELSE "stream",
                                       ty, f, sdk'[task[f].rec].produced)>>
                          ELSE <<>>]_vars

\* C25 witness: the second event of a stream, an assistant event, has
\* just been forwarded and the turn is still streaming.
C25_Witness ==
    \E f \in Frames :
        /\ task[f].pc = "streaming"
        /\ sdk[task[f].rec].produced = 2
        /\ sent = <<Frame(task[f].conn, "stream", "assistant", f, 2)>>

\* C26: a connection that drops has its record, in whatever state, marked
\* closed, released once and removed from the map, as session_close does;
\* from then on the map never holds a record for a closed connection.
C26_DropClosesSession ==
    /\ [][\A c \in Conns :
            (wsState[c] = "open" /\ ConnDrop(c))
            => /\ sessions'[c] = None
               /\ \A r \in Recs :
                    IF sessions[c] = r
                    THEN /\ managed'[r] = [managed[r] EXCEPT !.state = "closed"]
                         /\ sdk'[r] = [sdk[r] EXCEPT !.closeCalls = @ + 1]
                    ELSE managed'[r] = managed[r] /\ sdk'[r] = sdk[r]]_vars
    /\ [](\A c \in Conns : wsState[c] = "closed" => sessions[c] = None)

\* C26 witness: a connection dropped in the middle of the turn of its
\* second frame; its record is closed, released and out of the map while
\* the turn's handler still runs.
C26_Witness ==
    \E c \in Conns, r \in Recs, f \in Frames :
        /\ pingTimer
        /\ nConn = 1 /\ nFrames = 2
        /\ wsState[c] = "closed"
        /\ sessions[c] = None
        /\ managed[r].conn = c
        /\ managed[r].state = "closed"
        /\ sdk[r].closeCalls = 1
        /\ task[f].rec = r /\ task[f].pc = "streaming"

\* ---------------------------------------------------------------------
\* C27: the number of open connections never exceeds maxConnections, and an
\* authenticated upgrade request that arrives while the count is at or above
\* the cap is answered 503 and creates no connection, no connection id and
\* no session record.
C27_ConnectionCap ==
    /\ [](Cardinality({c \in Conns : wsState[c] = "open"}) <= maxConnections)
    /\ [][atCapacity /\ Upgrade(TRUE) =>
            /\ sent' = refuse("503")
            /\ UNCHANGED <<wsState, nConn, sessions, managed, nRec, sdk>>]_vars

\* an upgrade request was just refused by a running gateway whose every
\* allowed connection is open, while more clients could still connect
C27_Witness ==
    /\ wssRunning
    /\ Cardinality({c \in Conns : wsState[c] = "open"}) = maxConnections
    /\ nConn < MaxConn
    /\ sent = refuse("503")

\* ---------------------------------------------------------------------
\* C28: an upgrade request whose API key is not valid is answered 401, at
\* capacity or not, and adds no connection, no connection id and no session
\* record.
C28_AuthBeforeCapacity ==
    [][Upgrade(FALSE) =>
            /\ sent' = refuse("401")
            /\ UNCHANGED <<wsState, nConn, sessions, managed, nRec, sdk>>]_vars

\* a request with a bad key was just answered 401 by a running gateway that
\* is at its cap
C28_Witness ==
    /\ wssRunning
    /\ atCapacity
    /\ nConn < MaxConn
    /\ sent = refuse("401")

\* ---------------------------------------------------------------------
\* C29: shutdown is ordered.  The step that shuts the Session Manager down
\* (every record closed, the map emptied) stops the ping timer and touches
\* no socket; sockets are terminated by a shutting-down gateway only in a
\* later step, which starts with the ping timer stopped, the manager shut
\* down and no session record left.  Once the ping timer is stopped no ping
\* is sent, and once the server is closed no connection has a session
\* record and no socket is open.
C29_ShutdownOrdered ==
    /\ [](~sweepTimer => ~pingTimer)
    /\ [](~pingTimer => \A c \in Conns : sessions[c] = None)
    /\ [](~wssRunning => ~pingTimer /\ \A c \in Conns : wsState[c] # "open")
    /\ [][~pingTimer' /\ wsState' # wsState =>
            /\ ~pingTimer /\ ~sweepTimer
            /\ \A c \in Conns : sessions[c] = None
            /\ wssRunning /\ ~wssRunning']_vars
    /\ [][~pingTimer => ~PingAll /\ (\A i \in 1..Len(sent') : sent'[i].type # "ping")]_vars

\* the ping timer is stopped and the session of the connection, which was
\* in the middle of a turn, was closed by the manager and released once,
\* while the socket is still open: shutdown is at its await
C29_Witness ==
    \E c \in Conns, r \in Recs, f \in Frames :
        /\ ShutdownPending
        /\ ~sweepTimer
        /\ wsState[c] = "open" /\ sessions[c] = None
        /\ managed[r].conn = c
        /\ managed[r].state = "closed"
        /\ sdk[r].closeCalls = 1
        /\ task[f].rec = r /\ task[f].pc = "streaming"

\* ---------------------------------------------------------------------
\* C30: a socket stops being open only when the peer drops it, or in a step
\* of shutdown, session_close or the idle sweep; a step that writes an error
\* frame, whatever its code, and a step of abort leave every socket as it
\* was.
C30_ErrorsKeepConnection ==
    /\ [][\A c \in Conns :
            wsState[c] = "open" /\ wsState'[c] # "open" =>
                \/ ConnDrop(c)
                \/ ShutdownContinue
                \/ SessionClose(c)
                \/ SweepIdle]_vars
    /\ [][(\E i \in 1..Len(sent') : sent'[i].type = "error") =>
            wsState' = wsState]_vars
    /\ [][(\/ \E c \in Conns : Abort(c)
           \/ \E f \in Frames, ok \in BOOLEAN :
                 task[f].pc = "awaitAbort" /\ AbortReturn(f, ok)) =>
            wsState' = wsState]_vars

\* a STREAM_ERROR was just written to a connection whose turn was aborted,
\* and the connection is still open
C30_Witness ==
    \E i \in 1..Len(sent) :
        /\ sent[i].type = "error"
        /\ sent[i].code = "STREAM_ERROR"
        /\ wsState[sent[i].conn] = "open"
        /\ \E r \in Recs : managed[r].conn = sent[i].conn /\ sdk[r].abortCalls > 0

\* ---------------------------------------------------------------------
\* a step of a handler that serves a frame of connection a: the arrival of
\* the frame or the continuation of one of the handler's awaits
HandlerStep(a) ==
    \/ SessionStart(a)
    \/ \E hasContent \in BOOLEAN : Message(a, hasContent)
    \/ Abort(a)
    \/ SessionClose(a)
    \/ \E hasRequestId \in BOOLEAN : BadFrame(a, hasRequestId)
    \/ \E f \in Frames :
          /\ task[f].conn = a
          /\ \/ OpenContinue(f) \/ InitOk(f) \/ InitFail(f)
             \/ SendOk(f) \/ SendFail(f) \/ StreamEnd(f) \/ StreamFail(f)
             \/ \E ty \in SDKMessageType : StreamEvent(f, ty)
             \/ \E ok \in BOOLEAN : AbortReturn(f, ok)

\* the step changes nothing of connection b and writes nothing to it
Untouched(b) ==
    /\ sessions'[b] = sessions[b]
    /\ wsState'[b] = wsState[b]
    /\ \A r \in Recs :
          /\ managed[r].conn = b => managed'[r] = managed[r] /\ sdk'[r] = sdk[r]
          /\ managed'[r].conn = b => managed[r].conn = b
    /\ \A i \in 1..Len(sent') : sent'[i].conn # b

\* C31: once every connection of the run exists, a step of a handler of
\* connection a (session_start, message, abort,
\* session_close, a bad frame, and every continuation, the failing ones
\* included) leaves the map entry, the records, their state, lastActivity
\* and SDK session of every other connection b unchanged, creates no record
\* for b and writes no frame to b.
C31_SessionsIndependent ==
    [][\A a \in Conns :
          \/ nConn < MaxConn
          \/ \A b \in Conns \ {a} : Untouched(b)
          \/ ~HandlerStep(a)]_vars

\* C31 witness: a turn of one connection just failed with STREAM_ERROR while
\* the other connection's session is busy with a turn that is still
\* streaming
C31_Witness ==
    \E a, b \in Conns, f \in Frames :
        /\ a # b
        /\ Len(sent) = 1
        /\ sent[1].conn = a /\ sent[1].code = "STREAM_ERROR"
        /\ sessions[a] # None /\ managed[sessions[a]].state = "error"
        /\ sessions[b] # None /\ managed[sessions[b]].state = "busy"
        /\ task[f].rec = sessions[b] /\ task[f].pc = "streaming"

\* ---------------------------------------------------------------------
\* C32: an abort frame on a connection that has no record, or whose record
\* is initializing, ready, error or closed, calls no SDK session, changes no
\* record (state and lastActivity included) and no map entry, starts no
\* continuation and writes nothing to the client.
C32_AbortNoOp ==
    [][\A c \in Conns :
          (/\ sessions[c] = None \/ managed[sessions[c]].state # "busy"
           /\ Abort(c))
          => /\ sdk' = sdk
             /\ managed' = managed
             /\ sessions' = sessions
             /\ task' = task
             /\ sent' = <<>>]_vars

\* C32 witness: a second frame was handled on a connection whose record is
\* initializing, and it left no trace: no call on the SDK session, no
\* handler in flight but the open, the record as the open made it
C32_Witness ==
    \E c \in Conns, r \in Recs :
        /\ wsState[c] = "open"
        /\ nConn = 1
        /\ nFrames = 2
        /\ nRec = 1
        /\ sessions[c] = r
        /\ managed[r].state = "initializing"
        /\ sdk[r] = NoSdk
        /\ task[1].pc = "awaitInit" /\ task[2] = Idle
        /\ sent = <<>>

\* ---------------------------------------------------------------------
\* C33: every SDK session that was created and on which no release was
\* attempted is the session of the record the map holds for its connection.
C33_NoOrphanHandle ==
    \A r \in Recs :
        Created(r) /\ sdk[r].closeCalls = 0 => sessions[managed[r].conn] = r

\* ---------------------------------------------------------------------
\* C34: when initialize fails or times out while the map holds, for the
\* connection, a record installed by a later open, the failure cleanup
\* leaves that record in the map and calls nothing on its SDK session.
C34_CleanupOwnRecordOnly ==
    [][\A f \in Frames :
          (/\ task[f].pc = "awaitInit"
           /\ sessions[task[f].conn] \notin {None, task[f].rec}
           /\ InitFail(f))
          => /\ sessions'[task[f].conn] = sessions[task[f].conn]
             /\ sdk'[sessions[task[f].conn]] = sdk[sessions[task[f].conn]]]_vars

\* ---------------------------------------------------------------------
\* C35: no sendAndStream invocation is in flight on a record whose state is
\* ready or error, and a sweep pass never evicts a record on which one is in
\* flight.
C35_StateAgreesWithTurn ==
    /\ [](\A r \in Recs :
            managed[r].state \in {"ready", "error"} => TurnsInFlight(r) = {})
    /\ [][SweepIdle =>
            \A c \in Evicted : TurnsInFlight(sessions[c]) = {}]_vars

\* ---------------------------------------------------------------------
\* C36: once the record of a turn in flight has been closed (by
\* session_close or by the close of a new session_start), an event its
\* stream produces is not written to the client.
C36_NoEventsAfterClose ==
    [][\A f \in Frames, ty \in SDKMessageType :
          (/\ task[f].pc = "streaming"
           /\ managed[task[f].rec].state = "closed"
           /\ StreamEvent(f, ty))
          => sent' = <<>>]_vars

\* ---------------------------------------------------------------------
\* C37: the step that writes the result of a turn leaves the turn's record
\* ready and the turn over, so no frame is handled between the result and
\* the ready state; and a message handled right after a result was written
\* to its connection is refused SESSION_BUSY only if another turn is in
\* flight on the connection's record.
C37_ReadyAfterResult ==
    /\ [][\A f \in Frames :
            (task[f].pc = "streaming" /\ StreamEvent(f, "result"))
            => /\ managed'[task[f].rec].state = "ready"
               /\ task'[f].pc = "idle"]_vars
    /\ [][\A c \in Conns :
            (/\ Len(sent) = 1 /\ sent[1].type = "result" /\ sent[1].conn = c
             /\ Message(c, TRUE)
             /\ sent' # <<>> /\ sent'[1].code = "SESSION_BUSY")
            => TurnsInFlight(sessions[c]) # {}]_vars

\* C37 witness: the result of a turn was just written to an open connection
\* that can still send frames; its record is mapped, ready and has no turn
\* in flight
C37_Witness ==
    \E c \in Conns :
        /\ Len(sent) = 1 /\ sent[1].type = "result" /\ sent[1].conn = c
        /\ wsState[c] = "open"
        /\ nFrames < MaxFrames
        /\ sessions[c] # None
        /\ managed[sessions[c]].state = "ready"
        /\ sdk[sessions[c]].produced > 0
        /\ TurnsInFlight(sessions[c]) = {}

\* ---------------------------------------------------------------------
\* C38: a session_start on a connection that has a record releases that
\* record's SDK session, marks it closed and removes it from the map before
\* the new SDK session exists; when the new session's initialize fails the
\* connection has no record, and a message handled right after the error
\* SESSION_INIT_FAILED was written is answered NO_SESSION and calls no SDK
\* session.
C38_FailedRestartLeavesNone ==
    /\ [][\A c \in Conns :
            (sessions[c] # None /\ SessionStart(c))
            => /\ sessions'[c] = None
               /\ managed'[sessions[c]].state = "closed"
               /\ sdk'[sessions[c]].closeCalls = sdk[sessions[c]].closeCalls + 1
               /\ nRec' = nRec]_vars
    /\ [][\A f \in Frames :
            (task[f].pc = "awaitInit" /\ InitFail(f))
            => sessions'[task[f].conn] = None]_vars
    /\ [][\A c \in Conns, hasContent \in BOOLEAN :
            (/\ Len(sent) = 1 /\ sent[1].conn = c
             /\ sent[1].code = "SESSION_INIT_FAILED"
             /\ Message(c, hasContent))
            => /\ sent' = <<Frame(c, "error", "NO_SESSION", nFrames + 1, 0)>>
               /\ sdk' = sdk]_vars

\* C38 witness: a connection whose first session was ready has been sent
\* SESSION_INIT_FAILED for its second session_start; the first session was
\* released once, the second once by the failure cleanup, and the
\* connection, still open, has no record
C38_Witness ==
    \E c \in Conns, r1, r2 \in Recs :
        /\ r1 < r2
        /\ managed[r1].conn = c /\ managed[r2].conn = c
        /\ managed[r1].state = "closed"
        /\ managed[r1].conversationId = "confirmed"
        /\ sdk[r1].closeCalls = 1
        /\ managed[r2].state = "error"
        /\ sdk[r2].closeCalls = 1
        /\ sessions[c] = None
        /\ wsState[c] = "open"
        /\ nFrames < MaxFrames
        /\ sent = <<Frame(c, "error", "SESSION_INIT_FAILED", 0, 0)>>

\* ---------------------------------------------------------------------
\* C39: while the sweep keeps firing and time passes, every record that is
\* ready or error is eventually out of the map with its SDK session
\* released, unless a message makes it busy again.
C39_IdleReclaimed ==
    \A r \in Recs :
        (managed[r].state \in {"ready", "error"})
        ~> (\/ ~Mapped(r) /\ sdk[r].closeCalls > 0
            \/ managed[r].state = "busy")
====
